---- MODULE Spec2Model ----
(***************************************************************************)
(* Session usage metering and premium gating of SuperBrain AI (app.py).    *)
(* One Streamlit session: every action is one run of the script caused by  *)
(* one widget interaction.                                                 *)
(***************************************************************************)
EXTENDS Integers, Sequences, FiniteSets, TLC

\* ---------------------------------------------------------------- bounds
MaxFreeLimit == 2   \* FREE_DAILY_LIMIT is drawn from 0..MaxFreeLimit
MaxLen       == 2   \* longest code typed into the sidebar
MaxHistory   == 2   \* longest chat history
MaxRequests  == 2   \* cap on registered requests per session
MaxTime      == 1   \* clock readings of datetime.utcnow()

\* ---------------------------------------------------------------- strings
\* A string is a sequence of one-character strings.
Whitespace == {" "}
Chars == {"A", "a"} \cup Whitespace

StringsUpTo(n) == UNION {[1..k -> Chars] : k \in 0..n}

RECURSIVE lstrip(_)
lstrip(s) == IF s = <<>> THEN <<>>
             ELSE IF Head(s) \in Whitespace THEN lstrip(Tail(s)) ELSE s

RECURSIVE rstrip(_)
rstrip(s) == IF s = <<>> THEN <<>>
             ELSE IF s[Len(s)] \in Whitespace
                  THEN rstrip(SubSeq(s, 1, Len(s) - 1)) ELSE s

\* str.strip() with only a leading trim (mutant)
strip_leading_only(s) == lstrip(s)

\* str.strip(): drop leading and trailing whitespace
strip(s) == rstrip(lstrip(s))

\* ---------------------------------------------------------------- inputs
\* configured codes: none, a plain one, a blank one, one with trailing blank
Secrets  == {<<>>, <<"A">>, <<" ">>, <<"A", " ">>}
Codes    == StringsUpTo(MaxLen)
UserMsgs == {<<>>, <<" ">>, <<"a">>}   \* empty, blank, and a real message
Replies  == {<<"a">>}
Times    == 1..MaxTime
NoTime   == 0       \* premium_activated_at = None

ChatMode     == "General Chat"
\* two of the four one-shot tools; their handlers differ only in the prompt
OneShotModes == {"Resume & Cover Letter", "Code Helper"}

\* what the provider step does: create() raises, or returns a response whose
\* first choice cannot be read, or returns a response with text
ProviderRaises   == {"network_error", "auth_error", "rate_limit"}
ProviderFailures == ProviderRaises \cup {"malformed"}
ProviderOutcomes == ProviderFailures \cup {"ok"}

VARIABLES
  FREE_DAILY_LIMIT,      \* configuration, fixed at start
  PREMIUM_ACCESS_CODE,   \* configuration, fixed at start
  request_count,         \* ss.request_count
  is_premium,            \* ss.is_premium
  chat_history,          \* ss.chat_history
  premium_activated_at,  \* ss.premium_activated_at
  show_premium_modal,    \* ss.show_premium_modal
  analytics,             \* ss.analytics
  completions,           \* history: completions that returned the provider's text
  last,                  \* history: the handler that ran in the latest script run
  handlers               \* call_openai calls in progress, when runs overlap

vars == <<FREE_DAILY_LIMIT, PREMIUM_ACCESS_CODE, request_count, is_premium,
          chat_history, premium_activated_at, show_premium_modal, analytics,
          completions, last, handlers>>

config == <<FREE_DAILY_LIMIT, PREMIUM_ACCESS_CODE>>

\* record of the latest handler
Did(op, outcome, code, called, registered) ==
  [op |-> op, outcome |-> outcome, code |-> code,
   preCount |-> request_count, prePremium |-> is_premium,
   called |-> called, registered |-> registered]

\* ---------------------------------------------------------------- helpers
\* `if k not in ss: ss.k = default` re-initialising on every run (mutant)
ss_init_always(current, default) == default

\* `if k not in ss: ss.k = default` on a run of an existing session
ss_init(current, default) == current

\* can_use_ai with an off-by-one limit test (mutant)
can_use_ai_off_by_one(premium, count) ==
  IF premium THEN TRUE
  ELSE IF count > FREE_DAILY_LIMIT THEN FALSE ELSE TRUE

\* can_use_ai: the decision
can_use_ai(premium, count) ==
  IF premium THEN TRUE
  ELSE IF count >= FREE_DAILY_LIMIT THEN FALSE ELSE TRUE

\* can_use_ai: its effect on ss.show_premium_modal
can_use_ai_modal(premium, count, modal) ==
  IF can_use_ai(premium, count) THEN modal ELSE TRUE

\* register_request counting premium sessions too (mutant)
register_request_always(premium, count) == count + 1

\* register_request: the new ss.request_count
register_request(premium, count) ==
  IF ~premium THEN count + 1 ELSE count

\* _bump_analytics
bump_analytics(a, m, premium) ==
  [total_requests   |-> a.total_requests + 1,
   per_mode         |-> IF m \in DOMAIN a.per_mode
                        THEN [a.per_mode EXCEPT ![m] = @ + 1]
                        ELSE a.per_mode @@ (m :> 1),
   premium_requests |-> IF premium THEN a.premium_requests + 1
                        ELSE a.premium_requests,
   free_requests    |-> IF premium THEN a.free_requests
                        ELSE a.free_requests + 1]

\* the unlock test without the non-empty guard (mutant)
code_accepted_no_empty_guard(input_code) ==
  strip(input_code) = PREMIUM_ACCESS_CODE

\* `input_code.strip() and input_code.strip() == PREMIUM_ACCESS_CODE`
code_accepted(input_code) ==
  strip(input_code) # <<>> /\ strip(input_code) = PREMIUM_ACCESS_CODE

\* the unlock handler resetting the counter on every click (mutant)
unlock_count_always(accepted, count) == 0

\* the unlock handler: the new ss.request_count
unlock_count(accepted, count) == IF accepted THEN 0 ELSE count

\* the unlock handler: the new ss.is_premium
unlock_premium(accepted, premium) == IF accepted THEN TRUE ELSE premium

\* ---------------------------------------------------------------- initial state
\* two threads that may each be inside call_openai for the same session
Handlers == {"h1", "h2"}

\* a thread that is not inside call_openai
Idle == [pc |-> "idle", mode |-> "none", seen |-> 0, tmp |-> 0,
         resp |-> "none"]

NewAnalytics ==
  [total_requests |-> 0, free_requests |-> 0, premium_requests |-> 0,
   per_mode |-> <<>>]

InitConfig ==
  /\ FREE_DAILY_LIMIT \in 0..MaxFreeLimit
  /\ PREMIUM_ACCESS_CODE \in Secrets

Init ==
  /\ InitConfig
  /\ request_count = 0
  /\ is_premium = FALSE
  /\ chat_history = <<>>
  /\ premium_activated_at = NoTime
  /\ show_premium_modal = FALSE
  /\ analytics = NewAnalytics
  /\ completions = 0
  /\ last = [op |-> "start", outcome |-> "none", code |-> <<>>,
             preCount |-> 0, prePremium |-> FALSE,
             called |-> FALSE, registered |-> FALSE]
  /\ handlers = [h \in Handlers |-> Idle]

\* ---------------------------------------------------------------- actions
\* Every action is one run of the script: it starts with the session state
\* initialisation and then runs the handler of the button that was clicked.
\* The tool selected in the sidebar and the text typed into the widgets are
\* inputs of the run.

\* sidebar: "Unlock Premium"
UnlockPremium ==
  \E input_code \in Codes :
    LET rc   == ss_init(request_count, 0)
        prem == ss_init(is_premium, FALSE)
        ok   == code_accepted(input_code)
    IN /\ is_premium' = unlock_premium(ok, prem)
       /\ request_count' = unlock_count(ok, rc)
       /\ IF ok THEN \E now \in Times : premium_activated_at' = now
                ELSE UNCHANGED premium_activated_at
       /\ last' = Did("unlock", IF ok THEN "unlocked" ELSE "invalid",
                      input_code, FALSE, FALSE)
       /\ UNCHANGED <<config, handlers, chat_history, show_premium_modal, analytics,
                      completions>>

\* sidebar: "Learn about Premium", shown to free users
LearnAboutPremium ==
  /\ ~is_premium
  /\ show_premium_modal' = TRUE
  /\ request_count' = ss_init(request_count, 0)
  /\ is_premium' = ss_init(is_premium, FALSE)
  /\ last' = Did("learn", "none", <<>>, FALSE, FALSE)
  /\ UNCHANGED <<config, handlers, chat_history, premium_activated_at, analytics,
                 completions>>

\* modal: "Close", shown while the modal is up for a free user
CloseModal ==
  /\ show_premium_modal /\ ~is_premium
  /\ show_premium_modal' = FALSE
  /\ request_count' = ss_init(request_count, 0)
  /\ is_premium' = ss_init(is_premium, FALSE)
  /\ last' = Did("close", "none", <<>>, FALSE, FALSE)
  /\ UNCHANGED <<config, handlers, chat_history, premium_activated_at, analytics,
                 completions>>

\* General Chat: "Clear chat"
ClearChat ==
  /\ chat_history # <<>>
  /\ chat_history' = <<>>
  /\ request_count' = ss_init(request_count, 0)
  /\ is_premium' = ss_init(is_premium, FALSE)
  /\ last' = Did("clear", "none", <<>>, FALSE, FALSE)
  /\ UNCHANGED <<config, handlers, premium_activated_at, show_premium_modal, analytics,
                 completions>>

\* General Chat: "Send"
SendChat ==
  \E user_msg \in UserMsgs :
    LET rc   == ss_init(request_count, 0)
        prem == ss_init(is_premium, FALSE)
        h1   == Append(chat_history, <<"You", user_msg>>)
    IN /\ is_premium' = prem
       /\ UNCHANGED <<config, handlers, premium_activated_at>>
       /\ IF strip(user_msg) = <<>>
          THEN \* "Please type a message before sending."
               /\ request_count' = rc
               /\ last' = Did("chat", "empty_input", <<>>, FALSE, FALSE)
               /\ UNCHANGED <<chat_history, show_premium_modal, analytics,
                              completions>>
          ELSE /\ Len(chat_history) + 2 <= MaxHistory
               /\ show_premium_modal' =
                    can_use_ai_modal(prem, rc, show_premium_modal)
               /\ IF ~can_use_ai(prem, rc)
                  THEN /\ chat_history' = h1
                       /\ request_count' = rc
                       /\ last' = Did("chat", "quota_exceeded", <<>>,
                                      FALSE, FALSE)
                       /\ UNCHANGED <<analytics, completions>>
                  ELSE \E outcome \in ProviderOutcomes, reply \in Replies :
                       IF outcome \in ProviderFailures
                       THEN \* create() raised, or choices[0] could not be read
                            /\ chat_history' = h1
                            /\ request_count' = rc
                            /\ last' = Did("chat", outcome, <<>>, TRUE, FALSE)
                            /\ UNCHANGED <<analytics, completions>>
                       ELSE /\ analytics.total_requests < MaxRequests
                            /\ request_count' = register_request(prem, rc)
                            /\ analytics' =
                                 bump_analytics(analytics, ChatMode, prem)
                            /\ chat_history' = Append(h1, <<"AI", reply>>)
                            /\ completions' = completions + 1
                            /\ last' = Did("chat", "ok", <<>>, TRUE, TRUE)

\* the one-shot tools: the "Generate ..." button, which calls call_openai
Generate ==
  \E field \in UserMsgs :
    LET rc   == ss_init(request_count, 0)
        prem == ss_init(is_premium, FALSE)
    IN /\ is_premium' = prem
       /\ UNCHANGED <<config, handlers, premium_activated_at, chat_history>>
       /\ IF strip(field) = <<>>
          THEN \* "Please provide ..."
               /\ request_count' = rc
               /\ last' = Did("oneshot", "empty_input", <<>>, FALSE, FALSE)
               /\ UNCHANGED <<show_premium_modal, analytics, completions>>
          ELSE /\ show_premium_modal' =
                    can_use_ai_modal(prem, rc, show_premium_modal)
               /\ IF ~can_use_ai(prem, rc)
                  THEN \* return None
                       /\ request_count' = rc
                       /\ last' = Did("oneshot", "quota_exceeded", <<>>,
                                      FALSE, FALSE)
                       /\ UNCHANGED <<analytics, completions>>
                  ELSE \E mode \in OneShotModes, outcome \in ProviderOutcomes :
                       IF outcome \in ProviderRaises
                       THEN \* create() raised
                            /\ request_count' = rc
                            /\ last' = Did("oneshot", outcome, <<>>, TRUE, FALSE)
                            /\ UNCHANGED <<analytics, completions>>
                       ELSE \* register_request(mode) runs before choices[0]
                            \* is read
                            /\ analytics.total_requests < MaxRequests
                            /\ request_count' = register_request(prem, rc)
                            /\ analytics' = bump_analytics(analytics, mode, prem)
                            /\ completions' = IF outcome = "ok"
                                              THEN completions + 1
                                              ELSE completions
                            /\ last' = Did("oneshot", outcome, <<>>, TRUE, TRUE)

Next ==
  \/ UnlockPremium
  \/ LearnAboutPremium
  \/ CloseModal
  \/ ClearChat
  \/ SendChat
  \/ Generate

Spec == Init /\ [][Next]_vars

\* Any session state whatever, reachable or not: the specification under which
\* can_use_ai is checked as a function of (is_premium, request_count) and
\* FREE_DAILY_LIMIT, by the handlers that call it. can_use_ai does not read
\* the access code, which is fixed.
InitAny ==
  /\ FREE_DAILY_LIMIT \in 0..MaxFreeLimit
  /\ PREMIUM_ACCESS_CODE = <<"A">>
  /\ request_count \in 0..(MaxFreeLimit + 1)
  /\ is_premium \in BOOLEAN
  /\ chat_history = <<>>
  /\ premium_activated_at \in (IF is_premium THEN Times ELSE {NoTime})
  /\ show_premium_modal = FALSE
  /\ analytics = NewAnalytics
  /\ completions = 0
  /\ last = [op |-> "start", outcome |-> "none", code |-> <<>>,
             preCount |-> request_count, prePremium |-> is_premium,
             called |-> FALSE, registered |-> FALSE]
  /\ handlers = [h \in Handlers |-> Idle]

NextAny ==
  \/ ClearChat
  \/ SendChat
  \/ Generate

SpecAny == InitAny /\ [][NextAny]_vars

\* ---------------------------------------------------------------- overlapping runs
\* call_openai executed by two threads on one free session. The steps are the
\* points at which the code reads or writes the session: the admission test,
\* the provider call, and the load and the store of `ss.request_count += 1`.
InFlight == {"create", "register", "store"}

InitConc ==
  /\ FREE_DAILY_LIMIT \in 1..MaxFreeLimit
  /\ PREMIUM_ACCESS_CODE = <<"A">>
  /\ request_count = 0
  /\ is_premium = FALSE
  /\ chat_history = <<>>
  /\ premium_activated_at = NoTime
  /\ show_premium_modal = FALSE
  /\ analytics = NewAnalytics
  /\ completions = 0
  /\ last = [op |-> "start", outcome |-> "none", code |-> <<>>,
             preCount |-> 0, prePremium |-> FALSE,
             called |-> FALSE, registered |-> FALSE]
  /\ handlers = [h \in Handlers |-> Idle]

\* `if not can_use_ai(mode): return None`
ConcAdmit(h) ==
  /\ handlers[h].pc = "idle"
  /\ analytics.total_requests
       + Cardinality({g \in Handlers : handlers[g].pc \in InFlight})
       < MaxRequests
  /\ \E mode \in OneShotModes :
       /\ show_premium_modal' =
            can_use_ai_modal(is_premium, request_count, show_premium_modal)
       /\ handlers' =
            [handlers EXCEPT ![h] =
               IF can_use_ai(is_premium, request_count)
               THEN [pc |-> "create", mode |-> mode, seen |-> request_count,
                     tmp |-> 0, resp |-> "none"]
               ELSE [Idle EXCEPT !.resp = "quota_exceeded"]]
  /\ UNCHANGED <<config, request_count, is_premium, chat_history,
                 premium_activated_at, analytics, completions, last>>

\* `response = client.chat.completions.create(...)`
ConcCreate(h) ==
  /\ handlers[h].pc = "create"
  /\ \E outcome \in ProviderOutcomes :
       handlers' =
         [handlers EXCEPT ![h] =
            IF outcome \in ProviderRaises
            THEN [Idle EXCEPT !.resp = outcome]
            ELSE [@ EXCEPT !.pc = "register", !.resp = outcome]]
  /\ UNCHANGED <<config, request_count, is_premium, chat_history,
                 premium_activated_at, show_premium_modal, analytics,
                 completions, last>>

\* register_request: `if not ss.is_premium`, and the load and add of
\* `ss.request_count += 1`
ConcRegisterLoad(h) ==
  /\ handlers[h].pc = "register"
  /\ handlers' =
       [handlers EXCEPT ![h] =
          [@ EXCEPT !.pc = "store",
                    !.tmp = register_request(is_premium, request_count)]]
  /\ UNCHANGED <<config, request_count, is_premium, chat_history,
                 premium_activated_at, show_premium_modal, analytics,
                 completions, last>>

\* register_request: the store of `ss.request_count += 1`, _bump_analytics,
\* and `return response.choices[0].message.content`
ConcRegisterStore(h) ==
  /\ handlers[h].pc = "store"
  /\ request_count' = handlers[h].tmp
  /\ analytics' = bump_analytics(analytics, handlers[h].mode, is_premium)
  /\ completions' = IF handlers[h].resp = "ok"
                    THEN completions + 1 ELSE completions
  /\ handlers' = [handlers EXCEPT ![h] = [Idle EXCEPT !.resp = handlers[h].resp]]
  /\ UNCHANGED <<config, is_premium, chat_history, premium_activated_at,
                 show_premium_modal, last>>

NextConc ==
  \E h \in Handlers :
    \/ ConcAdmit(h)
    \/ ConcCreate(h)
    \/ ConcRegisterLoad(h)
    \/ ConcRegisterStore(h)

SpecConc == InitConc /\ [][NextConc]_vars

\* ---------------------------------------------------------------- properties
RequestOps == {"chat", "oneshot"}

\* the latest run was a completion request that got as far as can_use_ai
Requested == last.op \in RequestOps /\ last.outcome # "empty_input"

Blank(s) == \A i \in 1..Len(s) : s[i] \in Whitespace

\* code is secret with blanks around it, and secret has no blank at its ends
PaddedMatch(code, secret) ==
  /\ secret # <<>>
  /\ secret[1] \notin Whitespace
  /\ secret[Len(secret)] \notin Whitespace
  /\ \E i \in 0..Len(code) : \E j \in i..Len(code) :
       /\ Blank(SubSeq(code, 1, i))
       /\ SubSeq(code, i + 1, j) = secret
       /\ Blank(SubSeq(code, j + 1, Len(code)))

\* C1: a completion that failed at the provider step (create() raised, or the
\* first choice could not be read) leaves request_count as it was and has not
\* run register_request, in the one-shot path and in General Chat.
FailedCompletionKeepsQuota ==
  (Requested /\ last.outcome \in ProviderFailures)
    => (request_count = last.preCount /\ ~last.registered)

\* C2 as stated: "Unlock Premium" succeeds iff the typed code is non-empty and
\* equal, character for character and untrimmed, to PREMIUM_ACCESS_CODE.
UnlockIffExactMatch ==
  last.op = "unlock"
    => ((last.outcome = "unlocked")
          <=> (last.code # <<>> /\ last.code = PREMIUM_ACCESS_CODE))

\* C2 amended: "Unlock Premium" succeeds (and sets is_premium) iff the typed
\* code with the blanks around it removed is non-empty and equal, case
\* included, to the untouched PREMIUM_ACCESS_CODE; otherwise is_premium is
\* left as it was.
UnlockIffTrimmedMatch ==
  last.op = "unlock"
    => /\ (last.outcome = "unlocked")
            <=> PaddedMatch(last.code, PREMIUM_ACCESS_CODE)
       /\ last.outcome = "unlocked" => is_premium
       /\ last.outcome # "unlocked" => is_premium = last.prePremium

\* a code that is not the secret itself, only the secret with blanks, unlocked
UnlockedByPaddedCode ==
  /\ last.op = "unlock" /\ last.outcome = "unlocked" /\ is_premium
  /\ last.code # PREMIUM_ACCESS_CODE

\* C3: a request refused by can_use_ai leaves request_count, is_premium,
\* premium_activated_at and chat_history as they were, in both paths.
RefusalMutatesNothing ==
  [][(last'.op \in RequestOps /\ last'.outcome = "quota_exceeded")
       => /\ request_count' = request_count
          /\ is_premium' = is_premium
          /\ premium_activated_at' = premium_activated_at
          /\ chat_history' = chat_history]_vars

\* C4: while the session is free, request_count never passes
\* FREE_DAILY_LIMIT, the completions that returned text never pass
\* request_count (so at most FREE_DAILY_LIMIT of them, and that many bring
\* request_count to the limit), and a request made at or over the limit is
\* refused without a provider call and without being counted.
QuotaEnforced ==
  ~is_premium
    => /\ request_count <= FREE_DAILY_LIMIT
       /\ completions <= request_count
       /\ completions = FREE_DAILY_LIMIT => request_count = FREE_DAILY_LIMIT
       /\ (Requested /\ last.preCount >= FREE_DAILY_LIMIT)
            => /\ last.outcome = "quota_exceeded"
               /\ ~last.called /\ ~last.registered
               /\ request_count = last.preCount

\* the limit was used up by successful completions and the next request refused
QuotaUsedUpThenRefused ==
  /\ ~is_premium /\ FREE_DAILY_LIMIT > 1
  /\ completions = FREE_DAILY_LIMIT /\ request_count = FREE_DAILY_LIMIT
  /\ Requested /\ last.outcome = "quota_exceeded" /\ ~last.called

\* C5: can_use_ai is true exactly when is_premium or request_count <
\* FREE_DAILY_LIMIT, as a function and as the admission the handlers act on.
CanUseDecision ==
  /\ can_use_ai(is_premium, request_count)
       <=> (is_premium \/ request_count < FREE_DAILY_LIMIT)
  /\ Requested
       => ((last.outcome # "quota_exceeded")
             <=> (last.prePremium \/ last.preCount < FREE_DAILY_LIMIT))

\* a premium session over the limit was admitted and served
PremiumOverLimitServed ==
  /\ is_premium /\ request_count > FREE_DAILY_LIMIT
  /\ Requested /\ last.outcome = "ok" /\ last.prePremium
  /\ last.preCount > FREE_DAILY_LIMIT

\* C6: whenever is_premium holds, request_count is 0.
PremiumCountZero == is_premium => request_count = 0

\* a session that had counted free requests, unlocked, and was then served
PremiumServedAfterCountedUse ==
  /\ is_premium /\ request_count = 0
  /\ analytics.free_requests > 0
  /\ Requested /\ last.outcome = "ok" /\ last.prePremium /\ last.registered

\* C7: with an empty PREMIUM_ACCESS_CODE no session is ever premium.
EmptySecretNeverUnlocks == PREMIUM_ACCESS_CODE = <<>> => ~is_premium

\* a blank, non-empty code was tried against the empty secret and rejected
BlankCodeRejectedByEmptySecret ==
  /\ PREMIUM_ACCESS_CODE = <<>>
  /\ last.op = "unlock" /\ last.code # <<>> /\ Blank(last.code)
  /\ last.outcome = "invalid" /\ ~is_premium

\* C8: request_count never decreases in a step, except in the step of a
\* successful unlock, which sets it to 0.
CountMonotone ==
  [][\/ request_count' >= request_count
     \/ /\ last'.op = "unlock" /\ last'.outcome = "unlocked"
        /\ request_count' = 0]_vars

\* a successful unlock took a positive request_count to 0
UnlockResetPositiveCount ==
  /\ last.op = "unlock" /\ last.outcome = "unlocked"
  /\ last.preCount > 0 /\ request_count = 0

\* C9: is_premium turns true only in the step of a successful unlock, and
\* once true it is true after every later step.
PremiumOneWay ==
  [][/\ is_premium => is_premium'
     /\ (~is_premium /\ is_premium')
          => (last'.op = "unlock" /\ last'.outcome = "unlocked")]_vars

\* a premium session on which a wrong code was tried is still premium
PremiumKeptAfterWrongCode ==
  /\ is_premium /\ last.prePremium
  /\ last.op = "unlock" /\ last.outcome = "invalid"

\* C10: register_request runs in exactly the runs that return the provider's
\* text, so while the session is free request_count equals the number of
\* completions that returned text.
RegisteredOncePerSuccess ==
  /\ Requested => (last.registered <=> last.outcome = "ok")
  /\ ~is_premium => request_count = completions

\* C11: when two completion requests of one free session overlap, no
\* increment of request_count is lost (request_count equals the number of
\* register_request executions), request_count does not pass
\* FREE_DAILY_LIMIT, and two requests that both saw request_count =
\* FREE_DAILY_LIMIT - 1 are never both admitted.
ConcurrentRequestsAtomic ==
  ~is_premium
    => /\ request_count <= FREE_DAILY_LIMIT
       /\ (\A h \in Handlers : handlers[h].pc \notin {"store"})
            => request_count = analytics.free_requests
       /\ \A h1, h2 \in Handlers :
            (/\ h1 # h2
             /\ handlers[h1].pc \in InFlight
             /\ handlers[h2].pc \in InFlight)
              => ~(/\ handlers[h1].seen = FREE_DAILY_LIMIT - 1
                   /\ handlers[h2].seen = FREE_DAILY_LIMIT - 1)
====
